---- MODULE Spec2Model ----
(***************************************************************************)
(* Model of components/TrendAnalysis.tsx: generateData, the analysis       *)
(* pipeline (calculateSMA, findInflectionPoint, generateForecast,          *)
(* getAnalysisData) and the state of the TrendAnalysis component; and of   *)
(* the view state of App in components/Dashboard.tsx.                      *)
(*                                                                         *)
(* Numbers.  A JavaScript number is modelled as an exact rational <<n, d>> *)
(* in lowest terms with d > 0; `undefined` is the empty tuple.  The model  *)
(* therefore describes the arithmetic of the code over the reals: it does  *)
(* not model IEEE-754 rounding.                                            *)
(*                                                                         *)
(* Time.  A timestamp string (Date.toISOString) is modelled as the pair    *)
(* <<day, hour>>; the instant behind it is a number of hours.  `null` is   *)
(* the empty tuple.                                                        *)
(*                                                                         *)
(* Indices.  The variables keep the 0-based indices of the source; At      *)
(* reads a sequence at a 0-based index.                                    *)
(***************************************************************************)
EXTENDS Integers, Sequences, FiniteSets

VARIABLES
    pc,             \* position of the computation under way
    chartData,      \* the raw series handed to calculateSMA
    dataKey,        \* the key of the analysed metric
    windowSize,     \* calculateSMA's windowSize
    smaData,        \* calculateSMA's result / findInflectionPoint's argument
    history,        \* getAnalysisData's history
    validData,      \* findInflectionPoint: validData
    baseline,       \* findInflectionPoint: baseline
    idx,            \* findInflectionPoint: the loop variable i
    inflectionTime, \* findInflectionPoint: inflectionTime (the result)
    pointsToForecast,   \* generateForecast's pointsToForecast
    forecastPoints,     \* generateForecast's result
    fullData,           \* getAnalysisData: fullData
    forecastStartTime,  \* getAnalysisData: forecastStartTime
    now,                \* generateData: now, in hours
    timeRange,          \* TrendAnalysis: timeRange
    activeTab,          \* TrendAnalysis: activeTab
    sensors,            \* TrendAnalysis: the ids of sortedSensors
    selectedSensorId,   \* TrendAnalysis: selectedSensorId
    selectedChannel,    \* TrendAnalysis: selectedChannel
    pendingEffects,     \* TrendAnalysis: the effects the last render left to run
    ampAnalysis,        \* TrendAnalysis: ampAnalysis (useMemo)
    freqAnalysis,       \* TrendAnalysis: freqAnalysis (useMemo)
    ampChart,           \* the props of the amplitude card's AnalysisChart
    freqChart,          \* the props of the frequency card's AnalysisChart
    currentView,            \* App: currentView
    selectedDeviceId,       \* App: selectedDeviceId
    selectedDiagnosisPoint, \* App: selectedDiagnosisPoint
    diagnosisSensorInfo,    \* App: diagnosisSensorInfo
    dashboardViewMode,      \* App: dashboardViewMode
    dashboardProjectId      \* App: dashboardProjectId

fvars == <<pointsToForecast, forecastPoints, fullData, forecastStartTime>>

\* the state of the TrendAnalysis component, chartData apart
cvars == <<now, timeRange, activeTab, sensors, selectedSensorId,
           selectedChannel, pendingEffects, ampAnalysis, freqAnalysis,
           ampChart, freqChart>>

\* the view state of App
avars == <<currentView, selectedDeviceId, selectedDiagnosisPoint,
           diagnosisSensorInfo, dashboardViewMode, dashboardProjectId>>

vars == <<pc, chartData, dataKey, windowSize, smaData, history,
          validData, baseline, idx, inflectionTime,
          pointsToForecast, forecastPoints, fullData, forecastStartTime,
          cvars, avars>>

----------------------------------------------------------------------------
(* Exact arithmetic on JavaScript numbers                                  *)

Undefined == <<>>
Null == <<>>

\* a value of a variable or argument that may also be null or undefined
Some(v) == <<v>>

Abs(x) == IF x < 0 THEN -x ELSE x

RECURSIVE GCD(_, _)
GCD(a, b) == IF b = 0 THEN a ELSE GCD(b, a % b)

Norm(n, d) ==
    LET g == GCD(Abs(n), d)
    IN  <<n \div g, d \div g>>

Num(k) == <<k, 1>>
Frac(n, d) == Norm(n, d)

\* sums are formed over the least common denominator
RAdd(a, b) ==
    LET g == GCD(a[2], b[2])
    IN  Norm(a[1] * (b[2] \div g) + b[1] * (a[2] \div g),
             (a[2] \div g) * b[2])
RNeg(a) == <<-a[1], a[2]>>
RSub(a, b) == RAdd(a, RNeg(b))
RMul(a, b) == Norm(a[1] * b[1], a[2] * b[2])
\* a / b for b # 0
RDiv(a, b) ==
    IF b[1] < 0 THEN Norm(-(a[1] * b[2]), -(a[2] * b[1]))
    ELSE Norm(a[1] * b[2], a[2] * b[1])
RMax(a, b) == IF a[1] * b[2] < b[1] * a[2] THEN b ELSE a
RDivInt(a, k) == Norm(a[1], a[2] * k)
RLess(a, b) == a[1] * b[2] < b[1] * a[2]
RAbs(a) == <<Abs(a[1]), a[2]>>

\* x || 0 : undefined and 0 both give 0
OrZero(x) == IF x = Undefined \/ x = Num(0) THEN Num(0) ELSE x

----------------------------------------------------------------------------
(* Timestamps                                                              *)

ToISOString(t) == <<t \div 24, t % 24>>
GetTime(s) == s[1] * 24 + s[2]

At(s, i) == s[i + 1]

----------------------------------------------------------------------------
(* Input series                                                            *)

MaxLen == 5        \* longest raw series drawn for calculateSMA
MaxWindow == 6     \* largest window size drawn for calculateSMA

Keys == {"uhf_amp", "uhf_freq"}
AmpValues == {Num(0), Num(1), Frac(5, 2)}
FreqValue == Num(50)
Intervals == {1, 24}
NowHours == 5003

\* generateData gives point i of n the instant now - (n - i) * interval
PointTime(n, i, interval) == ToISOString(NowHours - (n - i) * interval)

MkChartData(amps, interval) ==
    [k \in 1..Len(amps) |->
        [time |-> PointTime(Len(amps), k - 1, interval),
         uhf_amp |-> amps[k],
         uhf_freq |-> FreqValue]]

Literal == <<Num(1), Num(2), Num(3), Num(4), Num(5), Num(6)>>

RawSeries ==
    {Literal} \cup UNION {[1..len -> AmpValues] : len \in 0..MaxLen}

----------------------------------------------------------------------------
(* calculateSMA                                                            *)

Min(a, b) == IF a < b THEN a ELSE b
Max(a, b) == IF a < b THEN b ELSE a

\* Array.prototype.slice(from, to), to <= length
Slice(s, from, to) ==
    LET lo == IF from < 0 THEN Max(Len(s) + from, 0) ELSE Min(from, Len(s))
    IN  SubSeq(s, lo + 1, to)

\* subset.reduce((acc, curr) => acc + (curr[key] || 0), 0)
RECURSIVE SumKey(_, _)
SumKey(subset, key) ==
    IF subset = <<>> THEN Num(0)
    ELSE RAdd(SumKey(SubSeq(subset, 1, Len(subset) - 1), key),
              OrZero(subset[Len(subset)][key]))

\* { ...point, sma: v }
WithSMA(point, v) ==
    [f \in DOMAIN point \cup {"sma"} |-> IF f = "sma" THEN v ELSE point[f]]

SMADropsShort(data, key, w) ==
    SelectSeq([k \in 1..Len(data) |->
                  IF k - 1 < w - 1 THEN WithSMA(data[k], Undefined)
                  ELSE WithSMA(data[k],
                               RDivInt(SumKey(Slice(data, k - w, k), key), w))],
              LAMBDA p : p.sma # Undefined)

SMAOffByOneGuard(data, key, w) ==
    [k \in 1..Len(data) |->
        IF k - 1 < w THEN WithSMA(data[k], Undefined)
        ELSE WithSMA(data[k], RDivInt(SumKey(Slice(data, k - w, k), key), w))]

SMAShortWindow(data, key, w) ==
    [k \in 1..Len(data) |->
        IF k - 1 < w - 1 THEN WithSMA(data[k], Undefined)
        ELSE WithSMA(data[k],
                     RDivInt(SumKey(Slice(data, k - w, k - 1), key), w))]

CalculateSMA(data, key, w) ==
    [k \in 1..Len(data) |->
        IF k - 1 < w - 1 THEN WithSMA(data[k], Undefined)
        ELSE WithSMA(data[k], RDivInt(SumKey(Slice(data, k - w, k), key), w))]

HistoryOfSMA(sma, key) ==
    [k \in 1..Len(sma) |->
        [time |-> sma[k].time, original |-> sma[k].sma, sma |-> sma[k].sma]]

\* smaData.map(d => ({ time: d.time, original: d[dataKey], sma: d.sma }))
History(sma, key) ==
    [k \in 1..Len(sma) |->
        [time |-> sma[k].time, original |-> sma[k][key], sma |-> sma[k].sma]]

----------------------------------------------------------------------------
(* Smoothing a drawn series: calculateSMA, then the history entries        *)

Idle ==
    /\ validData = <<>>
    /\ baseline = Undefined
    /\ idx = 0
    /\ inflectionTime = Null

DefaultHorizon == 6   \* pointsToForecast = 6

NoForecast ==
    /\ pointsToForecast = DefaultHorizon
    /\ forecastPoints = <<>>
    /\ fullData = <<>>
    /\ forecastStartTime = Undefined

\* App as constructed: the useState initial values
AppMounted ==
    /\ currentView = "home"
    /\ selectedDeviceId = Null
    /\ selectedDiagnosisPoint = Null
    /\ diagnosisSensorInfo = Null
    /\ dashboardViewMode = "projects"
    /\ dashboardProjectId = Null

\* no TrendAnalysis component is mounted
NoComponent ==
    /\ now = NowHours
    /\ timeRange = "3m"
    /\ activeTab = "electrical"
    /\ sensors = <<>>
    /\ selectedSensorId = Null
    /\ selectedChannel = "UHF"
    /\ pendingEffects = {}
    /\ ampAnalysis = Undefined
    /\ freqAnalysis = Undefined
    /\ ampChart = Undefined
    /\ freqChart = Undefined

InitSMA ==
    /\ pc = "sma_start"
    /\ \E amps \in RawSeries, interval \in Intervals :
           chartData = MkChartData(amps, interval)
    /\ dataKey \in Keys
    /\ windowSize \in 1..MaxWindow
    /\ smaData = <<>>
    /\ history = <<>>
    /\ Idle
    /\ NoForecast
    /\ NoComponent
    /\ AppMounted

Smooth ==
    /\ pc = "sma_start"
    /\ smaData' = CalculateSMA(chartData, dataKey, windowSize)
    /\ pc' = "sma_done"
    /\ UNCHANGED <<chartData, dataKey, windowSize, history,
                   validData, baseline, idx, inflectionTime>>
    /\ UNCHANGED <<fvars, cvars, avars>>

BuildHistory ==
    /\ pc = "sma_done"
    /\ history' = History(smaData, dataKey)
    /\ pc' = "history_done"
    /\ UNCHANGED <<chartData, dataKey, windowSize, smaData,
                   validData, baseline, idx, inflectionTime>>
    /\ UNCHANGED <<fvars, cvars, avars>>

NextSMA == Smooth \/ BuildHistory

SpecSMA == InitSMA /\ [][NextSMA]_vars

----------------------------------------------------------------------------
(* Claims about calculateSMA                                               *)

Smoothed == pc \in {"sma_done", "history_done"}

\* C1: calculateSMA returns a sequence of exactly the length of its input,
\* for every series and every window size >= 1 (so an empty series gives an
\* empty result).
C1_SameLength == Smoothed => Len(smaData) = Len(chartData)

C1_Witness ==
    /\ pc = "sma_done"
    /\ Len(chartData) >= 3
    /\ windowSize = 3
    /\ Len(smaData) = Len(chartData)

C1_WitnessEmpty ==
    /\ pc = "sma_done"
    /\ chartData = <<>>
    /\ smaData = <<>>

\* C2: sma is undefined at exactly the indices i < windowSize - 1 and defined
\* at every index i >= windowSize - 1; a series shorter than the window has
\* no defined sma at all.
C2_UndefinedPrefix ==
    Smoothed =>
        \A i \in 0..(Len(smaData) - 1) :
            (At(smaData, i).sma = Undefined) <=> (i < windowSize - 1)

C2_Witness ==
    /\ pc = "sma_done"
    /\ windowSize >= 2
    /\ Len(chartData) > windowSize
    /\ At(smaData, windowSize - 2).sma = Undefined
    /\ At(smaData, windowSize - 1).sma # Undefined

\* the sum of data[lo..hi][key], 0-based and inclusive
RECURSIVE WindowTotal(_, _, _, _)
WindowTotal(data, key, lo, hi) ==
    IF lo > hi THEN Num(0)
    ELSE RAdd(At(data, lo)[key], WindowTotal(data, key, lo + 1, hi))

AmpsOf(data) == [k \in 1..Len(data) |-> data[k].uhf_amp]

\* C3: at every index i >= windowSize - 1 the sma is the arithmetic mean of
\* the windowSize input values at i - windowSize + 1 .. i; for the series
\* 1,2,3,4,5,6 and window 3 the sma at indices 2,3,4,5 is 2,3,4,5.
C3_TrailingMean ==
    Smoothed =>
        /\ \A i \in 0..(Len(smaData) - 1) :
               i >= windowSize - 1 =>
                   RMul(At(smaData, i).sma, Num(windowSize))
                       = WindowTotal(chartData, dataKey,
                                     i - windowSize + 1, i)
        /\ (AmpsOf(chartData) = Literal /\ dataKey = "uhf_amp"
                /\ windowSize = 3) =>
               /\ At(smaData, 2).sma = Num(2)
               /\ At(smaData, 3).sma = Num(3)
               /\ At(smaData, 4).sma = Num(4)
               /\ At(smaData, 5).sma = Num(5)

C3_Witness ==
    /\ pc = "sma_done"
    /\ AmpsOf(chartData) = Literal
    /\ dataKey = "uhf_amp"
    /\ windowSize = 3
    /\ At(smaData, 5).sma = Num(5)

\* C4: every history entry carries the input point's value for the selected
\* key as original and the input point's timestamp as time, in input order;
\* the smoothed sequence has the timestamps of the input.
C4_Passthrough ==
    /\ Smoothed =>
           /\ Len(smaData) = Len(chartData)
           /\ \A i \in 0..(Len(smaData) - 1) :
                  At(smaData, i).time = At(chartData, i).time
    /\ pc = "history_done" =>
           /\ Len(history) = Len(chartData)
           /\ \A i \in 0..(Len(history) - 1) :
                  /\ At(history, i).original = At(chartData, i)[dataKey]
                  /\ At(history, i).time = At(chartData, i).time
                  /\ At(history, i).sma = At(smaData, i).sma

C4_Witness ==
    /\ pc = "history_done"
    /\ Len(chartData) >= 3
    /\ windowSize = 2
    /\ dataKey = "uhf_amp"
    /\ At(history, 0).original # At(history, 1).original
    /\ At(history, 1).original # At(history, 1).sma
    /\ At(history, 2).time = At(chartData, 2).time

----------------------------------------------------------------------------
(* findInflectionPoint                                                     *)

SMAWindow == 5       \* getAnalysisData: calculateSMA(chartData, dataKey, 5)
MinValid == 5        \* validData.length < 5
StableBand == 2      \* Math.abs(currentSMA - baseline) < 2
JumpThreshold == 6   \* currentSMA - baseline > 6

HasSMA(d) == d.sma # Undefined

\* data.filter(d => d.sma !== undefined)
ValidData(data) == SelectSeq(data, HasSMA)

TooShortBelowTwo(valid) == Len(valid) < 2

\* if (validData.length < 5) return null
TooShort(valid) == Len(valid) < MinValid

BaselineFromZero(valid) == Num(0)

\* let baseline = validData[0].sma
InitialBaseline(valid) == At(valid, 0).sma

UpdateAlways(b, cur) == RAdd(RMul(b, Frac(4, 5)), RMul(cur, Frac(1, 5)))

\* if (Math.abs(currentSMA - baseline) < 2)
\*     baseline = (baseline * 0.8) + (currentSMA * 0.2)
UpdateBaseline(b, cur) ==
    IF RLess(RAbs(RSub(cur, b)), Num(StableBand))
    THEN RAdd(RMul(b, Frac(4, 5)), RMul(cur, Frac(1, 5)))
    ELSE b

IsJumpAtThreshold(cur, b) == ~RLess(RSub(cur, b), Num(JumpThreshold))

IsJumpEitherWay(cur, b) == RLess(Num(JumpThreshold), RAbs(RSub(cur, b)))

IsJumpReversed(cur, b) == RLess(RSub(cur, b), Num(JumpThreshold))

\* if (currentSMA - baseline > 6)
IsJump(cur, b) == RLess(Num(JumpThreshold), RSub(cur, b))

AfterJumpNoBreak == "detect_loop"

\* break
AfterJump == "detect_done"

----------------------------------------------------------------------------
(* Smoothed series handed to findInflectionPoint                           *)

MaxValid == 6     \* longest run of defined sma values, general series
MaxDrift == 7     \* longest drifting series
MaxHold == 3      \* longest stay on the upper level of a step series
MaxFlat == 9      \* longest flat series

SmaValues == {Num(10), Num(11), Num(16), Num(18)}
DriftStarts == {Num(0), Num(15)}
DriftStep == Frac(19, 10)
FlatValues == {Num(0), Num(15), Frac(53, 2)}
StepLow == Num(15)
StepHigh == Num(26)

GeneralSeries == UNION {[1..n -> SmaValues] : n \in 0..MaxValid}

DriftSeries ==
    {[k \in 1..n |-> RAdd(s, RMul(DriftStep, Num(k - 1)))] :
        s \in DriftStarts, n \in 0..MaxDrift}

StepSeries ==
    {[k \in 1..(MinValid + m) |-> IF k <= MinValid THEN StepLow ELSE StepHigh] :
        m \in 0..MaxHold}

FlatSeries == {[k \in 1..n |-> v] : v \in FlatValues, n \in 0..MaxFlat}

\* what calculateSMA leaves of a series: `lead` entries without sma, then
\* the smoothed values
MkSmaData(lead, smas, interval) ==
    [k \in 1..(lead + Len(smas)) |->
        [time |-> PointTime(lead + Len(smas), k - 1, interval),
         sma |-> IF k <= lead THEN Undefined ELSE smas[k - lead]]]

SmaInputs ==
    {MkSmaData(SMAWindow - 1, smas, interval) :
        smas \in GeneralSeries \cup DriftSeries \cup StepSeries \cup FlatSeries,
        interval \in Intervals}
    \cup {MkSmaData(lead, <<>>, interval) :
        lead \in 0..(SMAWindow - 2), interval \in Intervals}

InitDetect ==
    /\ pc = "detect_start"
    /\ chartData = <<>>
    /\ dataKey = "uhf_amp"
    /\ windowSize = SMAWindow
    /\ smaData \in SmaInputs
    /\ history = <<>>
    /\ Idle
    /\ NoForecast
    /\ NoComponent
    /\ AppMounted

\* lines 105-114: filter, the length guard, the initial baseline
DetectStart ==
    /\ pc = "detect_start"
    /\ validData' = ValidData(smaData)
    /\ inflectionTime' = Null
    /\ IF TooShort(validData')
       THEN /\ pc' = "detect_done"
            /\ UNCHANGED <<baseline, idx>>
       ELSE /\ baseline' = InitialBaseline(validData')
            /\ idx' = 1
            /\ pc' = "detect_loop"
    /\ UNCHANGED <<chartData, dataKey, windowSize, smaData, history>>
    /\ UNCHANGED <<fvars, cvars, avars>>

\* lines 117-133: one iteration of the loop
DetectStep ==
    /\ pc = "detect_loop"
    /\ idx < Len(validData)
    /\ LET currentSMA == At(validData, idx).sma
           b == UpdateBaseline(baseline, currentSMA)
       IN  /\ baseline' = b
           /\ IF IsJump(currentSMA, b)
              THEN /\ inflectionTime' = At(validData, idx).time
                   /\ pc' = AfterJump
                   /\ idx' = IF AfterJump = "detect_loop" THEN idx + 1 ELSE idx
              ELSE /\ pc' = "detect_loop"
                   /\ idx' = idx + 1
                   /\ UNCHANGED inflectionTime
    /\ UNCHANGED <<chartData, dataKey, windowSize, smaData, history, validData>>
    /\ UNCHANGED <<fvars, cvars, avars>>

\* line 134: the loop ran out; return inflectionTime
DetectReturn ==
    /\ pc = "detect_loop"
    /\ idx >= Len(validData)
    /\ pc' = "detect_done"
    /\ UNCHANGED <<chartData, dataKey, windowSize, smaData, history,
                   validData, baseline, idx, inflectionTime>>
    /\ UNCHANGED <<fvars, cvars, avars>>

NextDetect == DetectStart \/ DetectStep \/ DetectReturn

SpecDetect == InitDetect /\ [][NextDetect]_vars

----------------------------------------------------------------------------
(* Claims about findInflectionPoint                                        *)

Detected == pc = "detect_done"

\* the entries of the argument that have a smoothed value, in order
Defined == SelectSeq(smaData, LAMBDA d : d.sma # Undefined)

SmaAt(i) == At(Defined, i).sma

\* the baseline folded over the defined samples 0..i: it starts at the first
\* one and moves a fifth of the way to each sample closer than 2 to it
RECURSIVE FoldedBaseline(_)
FoldedBaseline(i) ==
    IF i = 0 THEN SmaAt(0)
    ELSE LET b == FoldedBaseline(i - 1)
         IN  IF RLess(RAbs(RSub(SmaAt(i), b)), Num(2))
             THEN RDivInt(RAdd(RMul(Num(4), b), SmaAt(i)), 5)
             ELSE b

\* sample i exceeds the baseline of the samples before it by more than 6
Qualifies(i) == i >= 1 /\ RLess(Num(6), RSub(SmaAt(i), FoldedBaseline(i - 1)))

\* C5: a reported timestamp is that of the earliest defined sample, from the
\* second on, that exceeds the running baseline by more than 6; the scan
\* stops there, so no later qualifying sample is reported.
C5_FirstJumpOnly ==
    inflectionTime # Null =>
        /\ Detected
        /\ \E i \in 1..(Len(Defined) - 1) :
               /\ Qualifies(i)
               /\ \A j \in 1..(i - 1) : ~Qualifies(j)
               /\ inflectionTime = At(Defined, i).time

C5_Witness ==
    /\ Detected
    /\ \E i \in 1..(Len(Defined) - 1), j \in 1..(Len(Defined) - 1) :
           /\ i < j
           /\ Qualifies(i)
           /\ Qualifies(j)
           /\ inflectionTime = At(Defined, i).time
           /\ inflectionTime # At(Defined, j).time

\* every defined sample is 1.9 above the one before it
IsDrift ==
    \A i \in 1..(Len(Defined) - 1) :
        RSub(SmaAt(i), SmaAt(i - 1)) = Frac(19, 10)

IsStep ==
    /\ Len(Defined) >= 6
    /\ \A i \in 0..(Len(Defined) - 1) :
           SmaAt(i) = IF i < 5 THEN Num(15) ELSE Num(26)

\* C7: for a series holding at 15 for 5 samples and then at 26, the result
\* is the timestamp of the first sample at 26: not null, not a later one.
C7_StepReportedAtJump ==
    (Detected /\ IsStep) => inflectionTime = At(Defined, 5).time

C7_Witness ==
    /\ Detected
    /\ IsStep
    /\ Len(Defined) >= 7
    /\ inflectionTime = At(Defined, 5).time

IsFlat == \A i \in 1..(Len(Defined) - 1) : SmaAt(i) = SmaAt(0)

\* C8: a perfectly flat smoothed series of any length gives null.
C8_FlatGivesNull == (Detected /\ IsFlat) => inflectionTime = Null

C8_Witness ==
    /\ Detected
    /\ IsFlat
    /\ Len(Defined) >= 8
    /\ idx = Len(Defined)
    /\ inflectionTime = Null

\* C9: with fewer than 5 entries that have a smoothed value the result is
\* null, whatever the values, a jump of more than 6 among them included.
C9_FewSamplesGiveNull ==
    (Detected /\ Len(Defined) < 5) => inflectionTime = Null

C9_Witness ==
    /\ Detected
    /\ Len(Defined) = 4
    /\ Len(smaData) > Len(Defined)
    /\ RLess(Num(6), RSub(SmaAt(1), SmaAt(0)))
    /\ inflectionTime = Null

IsNonIncreasing ==
    \A i \in 1..(Len(Defined) - 1) : ~RLess(SmaAt(i - 1), SmaAt(i))

\* C10: a non-increasing smoothed series, a drop of more than 6 included,
\* gives null.
C10_NoFallReported == (Detected /\ IsNonIncreasing) => inflectionTime = Null

C10_Witness ==
    /\ Detected
    /\ IsNonIncreasing
    /\ Len(Defined) >= 5
    /\ \E i \in 1..(Len(Defined) - 1) :
           RLess(Num(6), RSub(SmaAt(i - 1), SmaAt(i)))
    /\ idx = Len(Defined)
    /\ inflectionTime = Null

----------------------------------------------------------------------------
(* generateForecast                                                        *)

MinForecastValid == 5   \* validData.length < 5
FitWindow == 5          \* Math.min(validData.length, 5)

TooFewBelowTwo(valid) == Len(valid) < 2

\* if (validData.length < 5) return []
TooFewForForecast(valid) == Len(valid) < MinForecastValid

\* const n = Math.min(validData.length, 5)
FitSize(valid) == Min(Len(valid), FitWindow)

\* validData.slice(validData.length - n)
FitSubset(valid) == Slice(valid, Len(valid) - FitSize(valid), Len(valid))

\* the four accumulators of subset.forEach((p, i) => ...), over i = 0..m-1
RECURSIVE SumX(_)
SumX(m) == IF m = 0 THEN 0 ELSE SumX(m - 1) + (m - 1)

RECURSIVE SumXX(_)
SumXX(m) == IF m = 0 THEN 0 ELSE SumXX(m - 1) + (m - 1) * (m - 1)

RECURSIVE SumY(_, _)
SumY(subset, m) ==
    IF m = 0 THEN Num(0) ELSE RAdd(SumY(subset, m - 1), At(subset, m - 1).sma)

RECURSIVE SumXY(_, _)
SumXY(subset, m) ==
    IF m = 0 THEN Num(0)
    ELSE RAdd(SumXY(subset, m - 1), RMul(Num(m - 1), At(subset, m - 1).sma))

\* (n * sumXY - sumX * sumY) / (n * sumXX - sumX * sumX)
Slope(subset) ==
    LET n == Len(subset)
    IN  RDiv(RSub(RMul(Num(n), SumXY(subset, n)),
                  RMul(Num(SumX(n)), SumY(subset, n))),
             Num(n * SumXX(n) - SumX(n) * SumX(n)))

\* (sumY - slope * sumX) / n
Intercept(subset) ==
    LET n == Len(subset)
    IN  RDivInt(RSub(SumY(subset, n), RMul(Slope(subset), Num(SumX(n)))), n)

\* lastTime - prevTime
Interval(valid) ==
    GetTime(At(valid, Len(valid) - 1).time)
        - GetTime(At(valid, Len(valid) - 2).time)

NoAnchor(lastPoint) == <<>>

\* forecast.push({ time: lastPoint.time, forecast: lastPoint.sma })
AnchorEntry(lastPoint) ==
    <<[time |-> lastPoint.time, forecast |-> lastPoint.sma]>>

DampingNoFloor(i) == RSub(Num(1), RMul(Num(i), Frac(1, 10)))

DampingNone(i) == Num(1)

\* Math.max(0.5, 1 - (i * 0.1))
Damping(i) == RMax(Frac(1, 2), RSub(Num(1), RMul(Num(i), Frac(1, 10))))

\* (slope * damping) * (n - 1 + i) + intercept
ForecastValue(slope, intercept, n, i) ==
    RAdd(RMul(RMul(slope, Damping(i)), Num(n - 1 + i)), intercept)

NoClamp(val) == val

\* Math.max(0, val)
ClampZero(val) == RMax(Num(0), val)

ForecastTimeLate(lastTime, interval, i) ==
    ToISOString(lastTime + interval * (i - 1))

\* new Date(lastTime + interval * i).toISOString()
ForecastTime(lastTime, interval, i) == ToISOString(lastTime + interval * i)

GenerateForecast(data, key, points) ==
    LET valid == ValidData(data)
    IN  IF TooFewForForecast(valid) THEN <<>>
        ELSE LET n == FitSize(valid)
                 subset == FitSubset(valid)
                 slope == Slope(subset)
                 intercept == Intercept(subset)
                 lastPoint == At(valid, Len(valid) - 1)
                 lastTime == GetTime(lastPoint.time)
                 interval == Interval(valid)
             IN  AnchorEntry(lastPoint) \o
                 [i \in 1..points |->
                     [time |-> ForecastTime(lastTime, interval, i),
                      forecast |->
                          ClampZero(ForecastValue(slope, intercept, n, i)),
                      isForecast |-> TRUE]]

----------------------------------------------------------------------------
(* Smoothed series handed to generateForecast                              *)

MaxFcLen == 6      \* longest run of defined sma values, general series
MaxLine == 7       \* longest series on the line y = 2x + 1
MaxHorizon == 7    \* largest pointsToForecast drawn

FcValues == {Num(0), Num(3), Num(20)}
Horizons == {3, DefaultHorizon, MaxHorizon}
\* <<interval, hours by which the last point is late>>
Timings == {<<1, 0>>, <<24, 0>>, <<24, 1>>}

FcGeneralSeries == UNION {[1..n -> FcValues] : n \in 0..MaxFcLen}

LineSeries == {[k \in 1..n |-> Num(2 * (k - 1) + 1)] : n \in FitWindow..MaxLine}

\* the last point `shift` hours late: an unevenly sampled series
ShiftLast(data, shift) ==
    [k \in 1..Len(data) |->
        IF k = Len(data) /\ HasSMA(data[k])
        THEN [time |-> ToISOString(GetTime(data[k].time) + shift),
              sma |-> data[k].sma]
        ELSE data[k]]

ForecastInputs ==
    {ShiftLast(MkSmaData(SMAWindow - 1, smas, timing[1]), timing[2]) :
        smas \in FcGeneralSeries \cup LineSeries, timing \in Timings}
    \cup {MkSmaData(lead, <<>>, interval) :
        lead \in 0..(SMAWindow - 2), interval \in Intervals}

InitForecast ==
    /\ pc = "forecast_start"
    /\ chartData = <<>>
    /\ dataKey = "uhf_amp"
    /\ windowSize = SMAWindow
    /\ smaData \in ForecastInputs
    /\ history = <<>>
    /\ Idle
    /\ pointsToForecast \in Horizons
    /\ forecastPoints = <<>>
    /\ fullData = <<>>
    /\ forecastStartTime = Undefined
    /\ NoComponent
    /\ AppMounted

Forecast ==
    /\ pc = "forecast_start"
    /\ forecastPoints' = GenerateForecast(smaData, "sma", pointsToForecast)
    /\ pc' = "forecast_done"
    /\ UNCHANGED <<chartData, dataKey, windowSize, smaData, history,
                   validData, baseline, idx, inflectionTime,
                   pointsToForecast, fullData, forecastStartTime>>
    /\ UNCHANGED <<cvars, avars>>

NextForecast == Forecast

SpecForecast == InitForecast /\ [][NextForecast]_vars

----------------------------------------------------------------------------
(* Claims about generateForecast                                           *)

Forecasted == pc = "forecast_done"

LastDefined == At(Defined, Len(Defined) - 1)

\* the forecast entry of step k = 1..pointsToForecast (the anchor is entry 0)
Step(k) == At(forecastPoints, k)

\* C11: with fewer than 5 entries that have a smoothed value the result is
\* the empty sequence: no anchor, no forecast point.
C11_TooFewGiveEmpty ==
    (Forecasted /\ Len(Defined) < 5) => forecastPoints = <<>>

C11_Witness ==
    /\ Forecasted
    /\ Len(Defined) = 4
    /\ SmaAt(0) # SmaAt(3)
    /\ forecastPoints = <<>>

\* C12: with at least 5 defined smoothed values the result has exactly
\* pointsToForecast + 1 entries: the anchor, with the time and the sma of the
\* last defined sample and no isForecast flag, then pointsToForecast entries
\* flagged isForecast.
C12_AnchorThenHorizon ==
    (Forecasted /\ Len(Defined) >= 5) =>
        /\ Len(forecastPoints) = pointsToForecast + 1
        /\ At(forecastPoints, 0).time = LastDefined.time
        /\ At(forecastPoints, 0).forecast = LastDefined.sma
        /\ "isForecast" \notin DOMAIN At(forecastPoints, 0)
        /\ \A k \in 1..pointsToForecast :
               /\ "isForecast" \in DOMAIN Step(k)
               /\ Step(k).isForecast = TRUE

C12_Witness ==
    /\ Forecasted
    /\ Len(Defined) >= 6
    /\ pointsToForecast = 6
    /\ Len(forecastPoints) = 7
    /\ At(forecastPoints, 0).forecast = LastDefined.sma
    /\ Step(6).isForecast = TRUE

\* the last five defined smoothed values, at window positions 0..4
Y(i) == SmaAt(Len(Defined) - 5 + i)

\* the least-squares line through (0, Y(0)) .. (4, Y(4))
FitSlope ==
    RDivInt(RSub(RAdd(RMul(Num(2), Y(4)), Y(3)),
                 RAdd(Y(1), RMul(Num(2), Y(0)))), 10)

FitIntercept ==
    RSub(RDivInt(RAdd(RAdd(RAdd(RAdd(Y(0), Y(1)), Y(2)), Y(3)), Y(4)), 5),
         RMul(Num(2), FitSlope))

Residual(i) == RSub(Y(i), RAdd(RMul(FitSlope, Num(i)), FitIntercept))

\* the normal equations of the fit: the residuals sum to 0 and are
\* orthogonal to the positions
IsLeastSquares ==
    /\ RAdd(RAdd(RAdd(RAdd(Residual(0), Residual(1)), Residual(2)),
                 Residual(3)), Residual(4)) = Num(0)
    /\ RAdd(RAdd(RAdd(Residual(1), RMul(Num(2), Residual(2))),
                 RMul(Num(3), Residual(3))), RMul(Num(4), Residual(4)))
           = Num(0)

\* slope * max(0.5, 1 - 0.1 k) * (n - 1 + k) + intercept, n = 5
Projected(k) ==
    RAdd(RMul(RMul(FitSlope, RMax(Frac(1, 2), Frac(10 - k, 10))), Num(4 + k)),
         FitIntercept)

\* slope * (n - 1 + k) + intercept, n = 5
Undamped(k) == RAdd(RMul(FitSlope, Num(4 + k)), FitIntercept)

\* C13: the forecast value of step k is
\* max(0, slope * max(0.5, 1 - 0.1 k) * (n - 1 + k) + intercept) with n = 5
\* and slope, intercept the least-squares fit of the last 5 defined smoothed
\* values against the positions 0..4.
C13_ForecastValue ==
    (Forecasted /\ Len(Defined) >= 5) =>
        /\ IsLeastSquares
        /\ \A k \in 1..pointsToForecast :
               Step(k).forecast = RMax(Num(0), Projected(k))

C13_Witness ==
    /\ Forecasted
    /\ Len(Defined) >= 6
    /\ pointsToForecast >= 6
    /\ RLess(Num(0), FitSlope)
    /\ Step(6).forecast = Projected(6)
    /\ Step(6).forecast
           # RAdd(RMul(RMul(FitSlope, Frac(4, 10)), Num(10)), FitIntercept)

\* C14: no forecast point has a negative value, whatever the series and the
\* horizon.
C14_NeverNegative ==
    Forecasted =>
        \A k \in 1..(Len(forecastPoints) - 1) :
            ~RLess(Step(k).forecast, Num(0))

C14_Witness ==
    /\ Forecasted
    /\ Len(Defined) >= 5
    /\ RLess(FitSlope, Num(0))
    /\ \E k \in 1..pointsToForecast :
           /\ RLess(Projected(k), Num(0))
           /\ Step(k).forecast = Num(0)

LastTime == GetTime(LastDefined.time)
PrevTime == GetTime(At(Defined, Len(Defined) - 2).time)

\* a timestamp string as toISOString writes it
IsISOString(s) == s[2] \in 0..23

\* C15: step k has the timestamp last + interval * k, with last the
\* timestamp of the last defined sample and interval its distance from the
\* one before; so the forecast timestamps strictly increase from one interval
\* after the last historical one.
C15_ForecastTimes ==
    (Forecasted /\ Len(Defined) >= 5) =>
        /\ \A k \in 1..pointsToForecast :
               /\ IsISOString(Step(k).time)
               /\ GetTime(Step(k).time) = LastTime + (LastTime - PrevTime) * k
        /\ LastTime > PrevTime =>
               \A k \in 1..pointsToForecast :
                   GetTime(Step(k).time)
                       > GetTime(At(forecastPoints, k - 1).time)

C15_Witness ==
    /\ Forecasted
    /\ Len(Defined) >= 5
    /\ pointsToForecast >= 3
    /\ LastTime - PrevTime = 25
    /\ PrevTime - GetTime(At(Defined, Len(Defined) - 3).time) = 24
    /\ GetTime(Step(3).time) = LastTime + 75
    /\ Step(3).time[1] > LastDefined.time[1]

\* the last five defined values lie on y = 2x + 1 at consecutive x
IsLine ==
    /\ Len(Defined) >= 5
    /\ \E x \in 0..Len(Defined) :
           \A i \in 0..4 : Y(i) = Num(2 * (x + i) + 1)

\* C16: on y = 2x + 1 with horizon 3 every forecast value is strictly below
\* the undamped projection slope * (n - 1 + k) + intercept of its step, and
\* none is negative.
C16_DampedBelowLine ==
    (Forecasted /\ IsLine /\ pointsToForecast = 3) =>
        \A k \in 1..3 :
            /\ RLess(Step(k).forecast, Undamped(k))
            /\ ~RLess(Step(k).forecast, Num(0))

C16_Witness ==
    /\ Forecasted
    /\ IsLine
    /\ pointsToForecast = 3
    /\ FitSlope = Num(2)
    /\ Len(Defined) = 6
    /\ Undamped(3) = Num(17)
    /\ Step(3).forecast = Frac(64, 5)

----------------------------------------------------------------------------
(* getAnalysisData                                                         *)

\* the iterations i .. stop - 1 of findInflectionPoint's loop, entered with
\* baseline b: <<baseline, inflectionTime>> as they leave them, the loop
\* being left at the first jump
RECURSIVE LoopSteps(_, _, _, _)
LoopSteps(valid, i, stop, b) ==
    IF i >= stop THEN <<b, Null>>
    ELSE LET currentSMA == At(valid, i).sma
             b1 == UpdateBaseline(b, currentSMA)
         IN  IF IsJump(currentSMA, b1) THEN <<b1, At(valid, i).time>>
             ELSE LoopSteps(valid, i + 1, stop, b1)

\* findInflectionPoint's loop from index i with baseline b, to its result;
\* it is evaluated ten iterations at a time, which bounds the depth of the
\* evaluation on the 90-point series
RECURSIVE InflectionLoop(_, _, _)
InflectionLoop(valid, i, b) ==
    IF i >= Len(valid) THEN Null
    ELSE LET left == LoopSteps(valid, i, Min(i + 10, Len(valid)), b)
         IN  IF left[2] # Null THEN left[2]
             ELSE InflectionLoop(valid, i + 10, left[1])

FindInflectionPoint(data) ==
    LET valid == ValidData(data)
    IN  IF TooShort(valid) THEN Null
        ELSE InflectionLoop(valid, 1, InitialBaseline(valid))

ForecastWithAnchor(points) ==
    [k \in 1..Len(points) |->
        [time |-> points[k].time, forecast |-> points[k].forecast]]

\* forecastPoints.slice(1).map(d => ({ time: d.time, forecast: d.forecast }))
ForecastTail(points) ==
    [k \in 1..(Len(points) - 1) |->
        [time |-> points[k + 1].time, forecast |-> points[k + 1].forecast]]

NeedsAnchorAlways(hist, points) == Len(hist) > 0

\* if (history.length > 0 && forecastPoints.length > 0)
NeedsAnchor(hist, points) == Len(hist) > 0 /\ Len(points) > 0

\* history[history.length - 1] = { ...history[history.length - 1],
\*                                 forecast: history[history.length - 1].sma }
StampLast(hist) ==
    [k \in 1..Len(hist) |->
        IF k = Len(hist)
        THEN [time |-> hist[k].time, original |-> hist[k].original,
              sma |-> hist[k].sma, forecast |-> hist[k].sma]
        ELSE hist[k]]

\* forecastPoints[0]?.time
ForecastStartTime(points) ==
    IF Len(points) = 0 THEN Undefined ELSE At(points, 0).time

\* the whole of getAnalysisData(dataKey) on the current chartData
GetAnalysisData ==
    /\ pc = "analysis_start"
    /\ smaData' = CalculateSMA(chartData, dataKey, SMAWindow)
    /\ inflectionTime' = FindInflectionPoint(smaData')
    /\ forecastPoints' = GenerateForecast(smaData', "sma", DefaultHorizon)
    /\ history' = IF NeedsAnchor(History(smaData', dataKey), forecastPoints')
                  THEN StampLast(History(smaData', dataKey))
                  ELSE History(smaData', dataKey)
    /\ fullData' = history' \o ForecastTail(forecastPoints')
    /\ forecastStartTime' = ForecastStartTime(forecastPoints')
    /\ pc' = "analysis_done"
    /\ UNCHANGED <<chartData, dataKey, windowSize, validData, baseline, idx,
                   pointsToForecast>>
    /\ UNCHANGED <<cvars, avars>>

NextAnalysis == GetAnalysisData

MaxRaw == 10      \* longest raw series drawn for getAnalysisData

AnalysisAmps == {Num(15), Num(26)}

AnalysisSeries == UNION {[1..len -> AnalysisAmps] : len \in 0..MaxRaw}

InitAnalysis ==
    /\ pc = "analysis_start"
    /\ \E amps \in AnalysisSeries, interval \in Intervals :
           chartData = MkChartData(amps, interval)
    /\ dataKey \in Keys
    /\ windowSize = SMAWindow
    /\ smaData = <<>>
    /\ history = <<>>
    /\ Idle
    /\ NoForecast
    /\ NoComponent
    /\ AppMounted

SpecAnalysis == InitAnalysis /\ [][NextAnalysis]_vars

----------------------------------------------------------------------------
(* The 90-sample daily series with a step after sample 62                  *)

E2EPoints == 90                        \* '3m': points = 90
JumpIndex == (E2EPoints * 7) \div 10   \* points * 0.7
Daily == 24                            \* '3m': interval = 24 * 3600 * 1000

FreeLow == 3      \* samples before the step drawn freely from the low band
FreeHigh == 3     \* samples after the step drawn freely from the high band

LowBand == {Num(13), Num(17)}          \* the ends of 15 +/- 2
HighBand == {Num(24), Num(28)}         \* the ends of 26 +/- 2
LowLevels == {Num(13), Num(15), Num(17)}
HighLevels == {Num(24), Num(26), Num(28)}

\* samples 0..62 in the low band, samples 63..89 in the high band: a level,
\* then freely drawn samples on either side of the step, then a level
StepSeries90 ==
    {[k \in 1..E2EPoints |->
         IF k - 1 < JumpIndex - FreeLow THEN low
         ELSE IF k - 1 < JumpIndex THEN lows[k - (JumpIndex - FreeLow)]
         ELSE IF k - 1 < JumpIndex + FreeHigh THEN highs[k - JumpIndex]
         ELSE high] :
        low \in LowLevels, lows \in [1..FreeLow -> LowBand],
        highs \in [1..FreeHigh -> HighBand], high \in HighLevels}

InitEndToEnd ==
    /\ pc = "analysis_start"
    /\ \E amps \in StepSeries90 : chartData = MkChartData(amps, Daily)
    /\ dataKey = "uhf_amp"
    /\ windowSize = SMAWindow
    /\ smaData = <<>>
    /\ history = <<>>
    /\ Idle
    /\ NoForecast
    /\ NoComponent
    /\ AppMounted

SpecEndToEnd == InitEndToEnd /\ [][NextAnalysis]_vars

----------------------------------------------------------------------------
(* Claims about getAnalysisData                                            *)

Analysed == pc = "analysis_done"

HistoryFields == {"time", "original", "sma"}

\* C17: fullData is every history entry {time, original, sma} in input
\* order, then the forecast entries {time, forecast} without the anchor; the
\* last history entry carries forecast = its own sma exactly when the
\* forecast is not empty and no other history entry has a forecast field;
\* the length is input length + horizon with a forecast and the input length
\* without.
C17_CombinedSequence ==
    Analysed =>
        LET n == Len(chartData)
        IN  /\ Len(fullData) =
                   IF forecastPoints # <<>> THEN n + DefaultHorizon ELSE n
            /\ \A i \in 0..(n - 1) :
                   /\ At(fullData, i).time = At(chartData, i).time
                   /\ At(fullData, i).original = At(chartData, i)[dataKey]
                   /\ At(fullData, i).sma = At(smaData, i).sma
                   /\ DOMAIN At(fullData, i) =
                          IF i = n - 1 /\ forecastPoints # <<>>
                          THEN HistoryFields \cup {"forecast"}
                          ELSE HistoryFields
            /\ (n > 0 /\ forecastPoints # <<>>) =>
                   At(fullData, n - 1).forecast = At(fullData, n - 1).sma
            /\ \A k \in 1..(Len(fullData) - n) :
                   /\ DOMAIN At(fullData, n - 1 + k) = {"time", "forecast"}
                   /\ At(fullData, n - 1 + k).time = Step(k).time
                   /\ At(fullData, n - 1 + k).forecast = Step(k).forecast
                   /\ Step(k).isForecast

C17_Witness ==
    /\ Analysed
    /\ Len(chartData) = 10
    /\ Len(fullData) = 16
    /\ inflectionTime # Null
    /\ At(fullData, 9).forecast = At(smaData, 9).sma
    /\ At(fullData, 10).forecast # At(fullData, 9).forecast
    /\ GetTime(At(fullData, 10).time) > GetTime(At(fullData, 9).time)

\* the 0-based indices of the input samples stamped with time t
SamplesAt(t) == {i \in 0..(Len(chartData) - 1) : At(chartData, i).time = t}

IsStep90 ==
    /\ Len(chartData) = 90
    /\ \A i \in 0..89 :
           LET v == At(chartData, i).uhf_amp
           IN  IF i <= 62
               THEN ~RLess(v, Num(13)) /\ ~RLess(Num(17), v)
               ELSE ~RLess(v, Num(24)) /\ ~RLess(Num(28), v)
    /\ \A i \in 1..89 :
           GetTime(At(chartData, i).time)
               - GetTime(At(chartData, i - 1).time) = 24

\* C18: on 90 daily samples, 0..62 within 15 +/- 2 and 63..89 within
\* 26 +/- 2, smoothing with window 5, detection and a forecast of horizon 6
\* give an inflection timestamp of a sample in 63..75 and exactly 6 forecast
\* points whose timestamps increase by one day each.
C18_EndToEnd ==
    (Analysed /\ IsStep90 /\ dataKey = "uhf_amp") =>
        /\ inflectionTime # Null
        /\ SamplesAt(inflectionTime) # {}
        /\ SamplesAt(inflectionTime) \subseteq 63..75
        /\ Len(forecastPoints) = 7
        /\ \A k \in 1..6 :
               /\ Step(k).isForecast
               /\ GetTime(Step(k).time)
                      = GetTime(At(forecastPoints, k - 1).time) + 24
        /\ At(forecastPoints, 0).time = At(chartData, 89).time

C18_Witness ==
    /\ Analysed
    /\ IsStep90
    /\ At(chartData, 62).uhf_amp = Num(17)
    /\ At(chartData, 63).uhf_amp = Num(24)
    /\ At(chartData, 60).uhf_amp = Num(13)
    /\ inflectionTime = At(chartData, 67).time
    /\ Len(forecastPoints) = 7

\* C20: for the empty series and for every series with fewer than 5 defined
\* smoothed values (fewer than 9 samples at window 5) getAnalysisData
\* returns the history alone (empty for the empty series), no inflection
\* time, no forecast start time, and stamps no history entry with a
\* forecast.
C20_DegenerateInputs ==
    (Analysed /\ Len(chartData) < 9) =>
        /\ Len(Defined) < 5
        /\ Len(fullData) = Len(chartData)
        /\ \A i \in 0..(Len(fullData) - 1) :
               /\ DOMAIN At(fullData, i) = HistoryFields
               /\ At(fullData, i).time = At(chartData, i).time
               /\ At(fullData, i).original = At(chartData, i)[dataKey]
        /\ inflectionTime = Null
        /\ forecastStartTime = Undefined
        /\ forecastPoints = <<>>

C20_Witness ==
    /\ Analysed
    /\ Len(chartData) = 8
    /\ Len(Defined) = 4
    /\ RLess(Num(6), RSub(SmaAt(3), SmaAt(0)))
    /\ Len(fullData) = 8
    /\ forecastStartTime = Undefined

C20_WitnessEmpty ==
    /\ Analysed
    /\ chartData = <<>>
    /\ fullData = <<>>
    /\ inflectionTime = Null

----------------------------------------------------------------------------
(* findInflectionPoint: the baseline (SpecDetect)                          *)

\* C23: at a step of the loop the baseline changes only when the current
\* smoothed value is closer than 2 to it, and then becomes
\* 0.8 * baseline + 0.2 * current; at every step where the absolute
\* difference is 2 or more, and when the loop is left, it stays as it was.
C23_BaselineFrame ==
    [][pc = "detect_loop" =>
          IF idx < Len(validData)
             /\ RLess(RAbs(RSub(At(validData, idx).sma, baseline)), Num(2))
          THEN baseline' = RDivInt(RAdd(RMul(Num(4), baseline),
                                        At(validData, idx).sma), 5)
          ELSE baseline' = baseline]_vars

\* 10, 11, 16: the baseline moved to 10.2 at 11 and stayed there at 16
C23_Witness ==
    /\ pc = "detect_loop"
    /\ idx = 3
    /\ At(validData, 0).sma = Num(10)
    /\ At(validData, 1).sma = Num(11)
    /\ At(validData, 2).sma = Num(16)
    /\ baseline = Frac(51, 5)

\* every defined smoothed value lies in a band of width at most 6
InBand ==
    \A i, j \in 0..(Len(Defined) - 1) :
        ~RLess(Num(6), RSub(SmaAt(i), SmaAt(j)))

\* the baseline lies between two of the samples 0..i
BetweenSeen(b, i) ==
    \E lo, hi \in 0..i :
        /\ ~RLess(b, At(validData, lo).sma)
        /\ ~RLess(At(validData, hi).sma, b)

\* C28: while the loop runs the baseline lies between the smallest and the
\* largest smoothed value seen so far, and a series whose defined smoothed
\* values all lie in a band of width at most 6 gives null.
C28_BandGivesNull ==
    /\ (pc = "detect_loop") => BetweenSeen(baseline, idx - 1)
    /\ (Detected /\ InBand) => inflectionTime = Null

\* a band of width exactly 6, from its lowest to its highest value
C28_Witness ==
    /\ Detected
    /\ Len(Defined) = 6
    /\ InBand
    /\ SmaAt(0) = Num(10)
    /\ SmaAt(4) = Num(11)
    /\ SmaAt(5) = Num(16)
    /\ baseline = FoldedBaseline(5)
    /\ inflectionTime = Null

----------------------------------------------------------------------------
(* generateForecast: the fit window and the projected values (SpecForecast)*)

\* C26: a forecast is computed from a fit window of exactly 5 samples,
\* whatever the number of defined smoothed samples and the horizon, so that
\* n * sumXX - sumX * sumX is 50 and the slope and the intercept are defined.
C26_FitWindowOfFive ==
    (Forecasted /\ forecastPoints # <<>>) =>
        LET n == FitSize(Defined)
        IN  /\ n = 5
            /\ Len(FitSubset(Defined)) = 5
            /\ n * SumXX(n) - SumX(n) * SumX(n) = 50
            /\ Slope(FitSubset(Defined))[2] > 0
            /\ Intercept(FitSubset(Defined))[2] > 0

C26_Witness ==
    /\ Forecasted
    /\ Len(Defined) = 7
    /\ pointsToForecast = 7
    /\ Len(forecastPoints) = 8
    /\ FitSlope = Num(2)

\* no step of the forecast is clamped at 0
Unclamped ==
    \A k \in 1..pointsToForecast : ~RLess(Projected(k), Num(0))

\* C27: with a strictly positive slope, no clamping and the horizon 6, each
\* forecast value is at least the one of the step before.
C27_NonDecreasing ==
    (/\ Forecasted
     /\ forecastPoints # <<>>
     /\ pointsToForecast = DefaultHorizon
     /\ RLess(Num(0), FitSlope)
     /\ Unclamped) =>
        \A k \in 1..(DefaultHorizon - 1) :
            ~RLess(Step(k + 1).forecast, Step(k).forecast)

----------------------------------------------------------------------------
(* getAnalysisData: the timestamps of the combined sequence (SpecAnalysis) *)

\* C29: the timestamps of the combined sequence are strictly increasing (the
\* series drawn have strictly increasing timestamps): the anchor, which
\* carries the time of the last history entry, is not an entry of its own.
C29_StrictlyIncreasingTimes ==
    Analysed =>
        \A i \in 1..(Len(fullData) - 1) :
            GetTime(fullData[i].time) < GetTime(fullData[i + 1].time)

C29_Witness ==
    /\ Analysed
    /\ Len(chartData) >= 9
    /\ Len(forecastPoints) = DefaultHorizon + 1
    /\ Len(fullData) = Len(chartData) + DefaultHorizon
    /\ At(forecastPoints, 0).time = At(fullData, Len(chartData) - 1).time
    /\ GetTime(At(fullData, Len(chartData)).time)
           = GetTime(At(forecastPoints, 0).time) + 24

----------------------------------------------------------------------------
(* App (components/Dashboard.tsx): the view state and its handlers         *)

DeviceIds == {"d1", "d2", "d3"}
ProjectIds == {"p1", "p2"}
ViewModes == {"projects", "devices"}

\* the chart points a click on the trend charts can hand over
DiagnosisPoints ==
    {[time |-> ToISOString(NowHours - 24), uhf_amp |-> Num(20)],
     [time |-> ToISOString(NowHours - 48), uhf_amp |-> Num(31)]}

\* the sensorInfo argument: the selected sensor's name and sn, or undefined
SensorInfos ==
    {Undefined, Some([name |-> "UHF-1", sn |-> "SN-1"]),
     Some([name |-> "TEV-1", sn |-> "SN-2"])}

\* pc names the handler that ran last
InitApp ==
    /\ pc = "App"
    /\ AppMounted
    /\ chartData = <<>>
    /\ dataKey = "uhf_amp"
    /\ windowSize = SMAWindow
    /\ smaData = <<>>
    /\ history = <<>>
    /\ Idle
    /\ NoForecast
    /\ NoComponent

Elsewhere ==
    UNCHANGED <<chartData, dataKey, windowSize, smaData, history,
                validData, baseline, idx, inflectionTime, fvars, cvars>>

\* handleLogout is handed to no component App renders (lines 525-563): the
\* set of views it can be fired from is empty, and it is no step of App
LogoutViews == {}

HandleLogout ==
    /\ currentView \in LogoutViews
    /\ pc' = "handleLogout"
    /\ currentView' = "home"
    /\ selectedDeviceId' = Null
    /\ dashboardViewMode' = "projects"
    /\ dashboardProjectId' = Null
    /\ UNCHANGED <<selectedDiagnosisPoint, diagnosisSensorInfo>>
    /\ Elsewhere

\* handleDeviceSelect, the Dashboard's onDeviceSelect (view 'home')
HandleDeviceSelect(deviceId) ==
    /\ currentView = "home"
    /\ pc' = "handleDeviceSelect"
    /\ selectedDeviceId' = Some(deviceId)
    /\ currentView' = "detail"
    /\ UNCHANGED <<selectedDiagnosisPoint, diagnosisSensorInfo,
                   dashboardViewMode, dashboardProjectId>>
    /\ Elsewhere

BackToHomeResetsDashboard ==
    /\ currentView = "detail"
    /\ pc' = "handleBackToHome"
    /\ currentView' = "home"
    /\ selectedDeviceId' = Null
    /\ dashboardViewMode' = "projects"
    /\ dashboardProjectId' = Null
    /\ UNCHANGED <<selectedDiagnosisPoint, diagnosisSensorInfo>>
    /\ Elsewhere

\* handleBackToHome, TrendAnalysis's onBack (view 'detail')
HandleBackToHome ==
    /\ currentView = "detail"
    /\ pc' = "handleBackToHome"
    /\ currentView' = "home"
    /\ selectedDeviceId' = Null
    /\ UNCHANGED <<selectedDiagnosisPoint, diagnosisSensorInfo,
                   dashboardViewMode, dashboardProjectId>>
    /\ Elsewhere

\* handleChartPointClick, TrendAnalysis's onChartClick (view 'detail')
HandleChartPointClick(point, sensorInfo) ==
    /\ currentView = "detail"
    /\ pc' = "handleChartPointClick"
    /\ selectedDiagnosisPoint' = Some(point)
    /\ diagnosisSensorInfo' = IF sensorInfo = Undefined THEN Null ELSE sensorInfo
    /\ currentView' = "diagnosis-detail"
    /\ UNCHANGED <<selectedDeviceId, dashboardViewMode, dashboardProjectId>>
    /\ Elsewhere

BackToTrendKeepsPoint ==
    /\ currentView = "diagnosis-detail"
    /\ pc' = "handleBackToTrend"
    /\ currentView' = "detail"
    /\ diagnosisSensorInfo' = Null
    /\ UNCHANGED <<selectedDeviceId, selectedDiagnosisPoint,
                   dashboardViewMode, dashboardProjectId>>
    /\ Elsewhere

\* handleBackToTrend, DiagnosisDetail's onBack (view 'diagnosis-detail')
HandleBackToTrend ==
    /\ currentView = "diagnosis-detail"
    /\ pc' = "handleBackToTrend"
    /\ currentView' = "detail"
    /\ selectedDiagnosisPoint' = Null
    /\ diagnosisSensorInfo' = Null
    /\ UNCHANGED <<selectedDeviceId, dashboardViewMode, dashboardProjectId>>
    /\ Elsewhere

\* handleDashboardViewChange, the Dashboard's onViewChange (view 'home')
HandleDashboardViewChange(mode, projectId) ==
    /\ currentView = "home"
    /\ pc' = "handleDashboardViewChange"
    /\ dashboardViewMode' = mode
    /\ dashboardProjectId' = projectId
    /\ UNCHANGED <<currentView, selectedDeviceId, selectedDiagnosisPoint,
                   diagnosisSensorInfo>>
    /\ Elsewhere

NextApp ==
    \/ \E deviceId \in DeviceIds : HandleDeviceSelect(deviceId)
    \/ HandleBackToHome
    \/ \E point \in DiagnosisPoints, sensorInfo \in SensorInfos :
           HandleChartPointClick(point, sensorInfo)
    \/ HandleBackToTrend
    \/ \E mode \in ViewModes,
            projectId \in {Some(p) : p \in ProjectIds} \cup {Null} :
           HandleDashboardViewChange(mode, projectId)

SpecApp == InitApp /\ [][NextApp]_vars

\* C25: handleBackToHome sets currentView to 'home' and clears
\* selectedDeviceId and leaves dashboardViewMode and dashboardProjectId as
\* they were; opening a device leaves them too, so that the dashboard comes
\* back on the project and mode it was left on.
C25_BackToHomeKeepsDashboard ==
    [][/\ pc' = "handleBackToHome" =>
              /\ currentView = "detail"
              /\ currentView' = "home"
              /\ selectedDeviceId' = Null
              /\ dashboardViewMode' = dashboardViewMode
              /\ dashboardProjectId' = dashboardProjectId
       /\ pc' = "handleDeviceSelect" =>
              /\ dashboardViewMode' = dashboardViewMode
              /\ dashboardProjectId' = dashboardProjectId]_vars

\* back on the device list of project p1 after a device was opened
C25_Witness ==
    /\ pc = "handleBackToHome"
    /\ currentView = "home"
    /\ selectedDeviceId = Null
    /\ dashboardViewMode = "devices"
    /\ dashboardProjectId = Some("p1")

\* C30: the views 'detail' and 'diagnosis-detail' are shown only with a
\* selected device, 'diagnosis-detail' only with a selected diagnosis point,
\* and no diagnosis point is selected in any other view.
C30_ViewState ==
    /\ currentView \in {"detail", "diagnosis-detail"} => selectedDeviceId # Null
    /\ currentView = "diagnosis-detail" => selectedDiagnosisPoint # Null
    /\ currentView # "diagnosis-detail" => selectedDiagnosisPoint = Null

\* back on the trend view from a diagnosis
C30_Witness ==
    /\ pc = "handleBackToTrend"
    /\ currentView = "detail"
    /\ selectedDeviceId = Some("d2")
    /\ selectedDiagnosisPoint = Null
    /\ diagnosisSensorInfo = Null

C30_WitnessDiagnosis ==
    /\ pc = "handleChartPointClick"
    /\ currentView = "diagnosis-detail"
    /\ selectedDeviceId = Some("d1")
    /\ selectedDiagnosisPoint \in {Some(p) : p \in DiagnosisPoints}
    /\ diagnosisSensorInfo = Null

----------------------------------------------------------------------------
(* generateData                                                            *)

TimeRanges == {"24h", "7d", "3m", "6m"}

\* switch (range): points
PointsOf(range) ==
    CASE range = "24h" -> 24
      [] range = "7d" -> 28
      [] range = "3m" -> 90
      [] range = "6m" -> 90

\* switch (range): interval, in hours
IntervalOf(range) ==
    CASE range = "24h" -> 1
      [] range = "7d" -> 6
      [] range = "3m" -> 24
      [] range = "6m" -> 48

\* i > points * 0.7 in doubles: 0.7 is the double just below 7/10 and the
\* products 16.799999999999997, 19.599999999999998, 62.99999999999999 lie
\* below 7/10 of the points, so that i = 63 of 90 is already above
AboveSevenTenths(i, points) == 10 * i >= 7 * points

\* i > points * 0.4 in doubles: the products are 9.600000000000001,
\* 11.200000000000001 and 36.0
AboveFourTenths(i, points) == 10 * i > 4 * points

BaseAmp(i, points) ==
    IF AboveSevenTenths(i, points) THEN 26
    ELSE IF AboveFourTenths(i, points) THEN 18 ELSE 15

BaseFreq(i, points) ==
    IF AboveSevenTenths(i, points) THEN 120
    ELSE IF AboveFourTenths(i, points) THEN 70 ELSE 50

\* const noise = () => (Math.random() * 4) - 2
Noise(u) == RSub(RMul(u, Num(4)), Num(2))

PointInstantFromNow(nowH, points, i, interval) ==
    nowH - (points - i - 1) * interval

\* now.getTime() - (points - i) * interval
PointInstant(nowH, points, i, interval) == nowH - (points - i) * interval

\* the results of Math.random: each sequence gives the result of the ten
\* calls made for one point, in the order of the calls, the same for every
\* point of a series
Draws == {Num(0), Frac(3, 4)}
RandomCalls == 10

RandomSources ==
    {[c \in 1..RandomCalls |-> u] : u \in Draws}
    \cup {[c \in 1..RandomCalls |-> IF c % 2 = 1 THEN Num(0) ELSE Frac(3, 4)]}

\* data.push({ time: time.toISOString(), uhf_amp: ..., ... }) for point i
GeneratedPoint(i, points, interval, rnd, nowH) ==
    [time |-> ToISOString(PointInstant(nowH, points, i, interval)),
     uhf_amp |-> RMax(Num(0), RAdd(RAdd(Num(BaseAmp(i, points)), Noise(rnd[1])),
                                   Num(5))),
     tev_amp |-> RMax(Num(0), RAdd(Num(BaseAmp(i, points)), Noise(rnd[2]))),
     hfct_amp |-> RAdd(RMul(rnd[3], Num(50)), Num(10)),
     ae_amp |-> RAdd(RMul(rnd[4], Num(20)), Num(5)),
     uhf_freq |-> RMax(Num(0), RAdd(Num(BaseFreq(i, points)),
                                    RMul(Noise(rnd[5]), Num(5)))),
     tev_freq |-> RMax(Num(0), RAdd(RMul(Num(BaseFreq(i, points)), Frac(4, 5)),
                                    RMul(Noise(rnd[6]), Num(5)))),
     hfct_freq |-> RMul(rnd[7], Num(50)),
     ae_freq |-> RMul(rnd[8], Num(20)),
     temperature |-> RAdd(Num(25), RMul(rnd[9], Num(2))),
     humidity |-> RAdd(Num(60), RMul(rnd[10], Num(5))),
     isAlarm |-> BaseAmp(i, points) > 20]

GenerateData(range, rnd, nowH) ==
    [k \in 1..PointsOf(range) |->
        GeneratedPoint(k - 1, PointsOf(range), IntervalOf(range), rnd, nowH)]

MaxLater == 25    \* the latest generation instant drawn, in hours after NowHours

\* the instants at which a series is generated
Clocks == {NowHours + h : h \in {0, 1, 5, 6, 12, 23, 24, MaxLater}}

InitGenerate ==
    /\ pc = "generate_start"
    /\ timeRange \in TimeRanges
    /\ now \in Clocks
    /\ chartData = <<>>
    /\ dataKey = "uhf_amp"
    /\ windowSize = SMAWindow
    /\ smaData = <<>>
    /\ history = <<>>
    /\ Idle
    /\ NoForecast
    /\ activeTab = "electrical"
    /\ sensors = <<>>
    /\ selectedSensorId = Null
    /\ selectedChannel = "UHF"
    /\ pendingEffects = {}
    /\ ampAnalysis = Undefined
    /\ freqAnalysis = Undefined
    /\ ampChart = Undefined
    /\ freqChart = Undefined
    /\ AppMounted

\* one call generateData(timeRange)
Generate ==
    /\ pc = "generate_start"
    /\ \E rnd \in RandomSources : chartData' = GenerateData(timeRange, rnd, now)
    /\ pc' = "generate_done"
    /\ UNCHANGED <<dataKey, windowSize, smaData, history,
                   validData, baseline, idx, inflectionTime, fvars, avars>>
    /\ UNCHANGED <<now, timeRange, activeTab, sensors, selectedSensorId,
                   selectedChannel, pendingEffects, ampAnalysis, freqAnalysis,
                   ampChart, freqChart>>

NextGenerate == Generate

SpecGenerate == InitGenerate /\ [][NextGenerate]_vars

Generated == pc = "generate_done"

TimeOfPoint(i) == GetTime(At(chartData, i).time)

\* C24: generateData returns 24 points for '24h', 28 for '7d', 90 for '3m'
\* and for '6m'; consecutive timestamps are 1, 6, 24 and 48 hours apart
\* respectively, hence strictly ascending, and every timestamp is strictly
\* before the instant of the generation.
C24_GeneratedSeries ==
    Generated =>
        /\ timeRange = "24h" => Len(chartData) = 24
        /\ timeRange = "7d" => Len(chartData) = 28
        /\ timeRange \in {"3m", "6m"} => Len(chartData) = 90
        /\ \A i \in 0..(Len(chartData) - 2) :
               /\ timeRange = "24h" => TimeOfPoint(i + 1) = TimeOfPoint(i) + 1
               /\ timeRange = "7d" => TimeOfPoint(i + 1) = TimeOfPoint(i) + 6
               /\ timeRange = "3m" => TimeOfPoint(i + 1) = TimeOfPoint(i) + 24
               /\ timeRange = "6m" => TimeOfPoint(i + 1) = TimeOfPoint(i) + 48
               /\ TimeOfPoint(i) < TimeOfPoint(i + 1)
        /\ \A i \in 0..(Len(chartData) - 1) : TimeOfPoint(i) < now

C24_Witness ==
    /\ Generated
    /\ timeRange = "6m"
    /\ Len(chartData) = 90
    /\ TimeOfPoint(0) = now - 90 * 48
    /\ TimeOfPoint(89) = now - 48
    /\ At(chartData, 63).uhf_amp = Num(32)
    /\ At(chartData, 62).uhf_amp = Num(24)

----------------------------------------------------------------------------
(* The TrendAnalysis component: state, effects, memoised analyses          *)

\* getAnalysisData(dataKey) on the series `data`
AnalysisData(data, key) ==
    LET sma == CalculateSMA(data, key, SMAWindow)
        points == GenerateForecast(sma, "sma", DefaultHorizon)
        hist == IF NeedsAnchor(History(sma, key), points)
                THEN StampLast(History(sma, key))
                ELSE History(sma, key)
    IN  [fullData |-> hist \o ForecastTail(points),
         inflectionTime |-> FindInflectionPoint(sma),
         forecastStartTime |-> ForecastStartTime(points)]

Channels == {"UHF", "TEV", "AE"}
Tabs == {"electrical", "environmental"}

\* selectedChannel === 'UHF' ? 'uhf_amp'
\*     : (selectedChannel === 'TEV' ? 'tev_amp' : 'ae_amp')
AmpKey(channel) ==
    IF channel = "UHF" THEN "uhf_amp"
    ELSE IF channel = "TEV" THEN "tev_amp" ELSE "ae_amp"

FreqKey(channel) ==
    IF channel = "UHF" THEN "uhf_freq"
    ELSE IF channel = "TEV" THEN "tev_freq" ELSE "ae_freq"

MemoOnDataOnly(data0, data1, channel0, channel1) == data0 # data1

\* useMemo(..., [chartData, selectedChannel]): a dependency changed
AnalysisDepsChanged(data0, data1, channel0, channel1) ==
    data0 # data1 \/ channel0 # channel1

\* <AnalysisChart data={ampAnalysis.fullData}
\*     inflectionTime={ampAnalysis.inflectionTime}
\*     forecastStartTime={ampAnalysis.forecastStartTime} />
AmpChartProps(analysis) ==
    [data |-> analysis.fullData,
     inflectionTime |-> analysis.inflectionTime,
     forecastStartTime |-> analysis.forecastStartTime]

\* <AnalysisChart data={freqAnalysis.fullData} inflectionTime={null}
\*     forecastStartTime={freqAnalysis.forecastStartTime} />
FreqChartProps(analysis) ==
    [data |-> analysis.fullData,
     inflectionTime |-> Null,
     forecastStartTime |-> analysis.forecastStartTime]

\* the render that follows a change of state: the two memoised analyses and
\* the props of the two charts of the 'electrical' tab
Render ==
    /\ ampAnalysis' =
           IF AnalysisDepsChanged(chartData, chartData',
                                  selectedChannel, selectedChannel')
           THEN AnalysisData(chartData', AmpKey(selectedChannel'))
           ELSE ampAnalysis
    /\ freqAnalysis' =
           IF AnalysisDepsChanged(chartData, chartData',
                                  selectedChannel, selectedChannel')
           THEN AnalysisData(chartData', FreqKey(selectedChannel'))
           ELSE freqAnalysis
    /\ ampChart' = IF activeTab' = "electrical"
                   THEN AmpChartProps(ampAnalysis') ELSE Undefined
    /\ freqChart' = IF activeTab' = "electrical"
                    THEN FreqChartProps(freqAnalysis') ELSE Undefined

SensorLists == {<<>>, <<"s1", "s2">>}

\* the component after its first render: the useState initial values, the
\* analyses of the empty series, both effects still to run
InitTrend ==
    /\ pc = "TrendAnalysis"
    /\ now = NowHours
    /\ timeRange = "3m"
    /\ activeTab = "electrical"
    /\ chartData = <<>>
    /\ sensors \in SensorLists
    /\ selectedSensorId = Null
    /\ selectedChannel = "UHF"
    /\ pendingEffects = {"selectDefault", "generate"}
    /\ ampAnalysis = AnalysisData(<<>>, AmpKey("UHF"))
    /\ freqAnalysis = AnalysisData(<<>>, FreqKey("UHF"))
    /\ ampChart = AmpChartProps(ampAnalysis)
    /\ freqChart = FreqChartProps(freqAnalysis)
    /\ dataKey = "uhf_amp"
    /\ windowSize = SMAWindow
    /\ smaData = <<>>
    /\ history = <<>>
    /\ Idle
    /\ NoForecast
    /\ AppMounted

OutsideTrend ==
    UNCHANGED <<pc, now, sensors, dataKey, windowSize, smaData, history,
                validData, baseline, idx, inflectionTime, fvars, avars>>

\* the effects whose dependencies a render changed:
\* [sortedSensors, selectedSensorId] and [timeRange, selectedSensorId]
EffectsAfter(range0, range1, sensor0, sensor1) ==
    (IF sensor0 # sensor1 THEN {"selectDefault", "generate"} ELSE {})
    \cup (IF range0 # range1 THEN {"generate"} ELSE {})

\* the effects of the last render, run in order: the default selection of
\* the first sensor, then setChartData(generateData(timeRange)); then the
\* render of the state they set
RunEffects ==
    /\ pendingEffects # {}
    /\ selectedSensorId' =
           IF "selectDefault" \in pendingEffects /\ Len(sensors) > 0
              /\ selectedSensorId = Null
           THEN Some(sensors[1]) ELSE selectedSensorId
    /\ \E rnd \in RandomSources :
           chartData' = IF "generate" \in pendingEffects
                        THEN GenerateData(timeRange, rnd, now) ELSE chartData
    /\ pendingEffects' =
           EffectsAfter(timeRange, timeRange, selectedSensorId, selectedSensorId')
    /\ UNCHANGED <<timeRange, activeTab, selectedChannel>>
    /\ Render
    /\ OutsideTrend

\* onClick={() => setTimeRange(t)}; an event is handled once the effects of
\* the last render have run
SetTimeRange(t) ==
    /\ pendingEffects = {}
    /\ timeRange' = t
    /\ pendingEffects' =
           EffectsAfter(timeRange, t, selectedSensorId, selectedSensorId)
    /\ UNCHANGED <<chartData, activeTab, selectedSensorId, selectedChannel>>
    /\ Render
    /\ OutsideTrend

\* onClick={() => setSelectedSensorId(sensor.id)}
SetSelectedSensorId(id) ==
    /\ pendingEffects = {}
    /\ selectedSensorId' = Some(id)
    /\ pendingEffects' =
           EffectsAfter(timeRange, timeRange, selectedSensorId, Some(id))
    /\ UNCHANGED <<chartData, timeRange, activeTab, selectedChannel>>
    /\ Render
    /\ OutsideTrend

\* onClick={... setSelectedChannel(ch.label)}, on the 'electrical' tab
SetSelectedChannel(channel) ==
    /\ pendingEffects = {}
    /\ activeTab = "electrical"
    /\ selectedChannel' = channel
    /\ UNCHANGED <<chartData, timeRange, activeTab, selectedSensorId,
                   pendingEffects>>
    /\ Render
    /\ OutsideTrend

\* onClick={() => setActiveTab(...)}
SetActiveTab(tab) ==
    /\ pendingEffects = {}
    /\ activeTab' = tab
    /\ UNCHANGED <<chartData, timeRange, selectedSensorId, selectedChannel,
                   pendingEffects>>
    /\ Render
    /\ OutsideTrend

NextTrend ==
    \/ RunEffects
    \/ \E t \in TimeRanges : SetTimeRange(t)
    \/ \E k \in 1..Len(sensors) : SetSelectedSensorId(sensors[k])
    \/ \E channel \in Channels : SetSelectedChannel(channel)
    \/ \E tab \in Tabs : SetActiveTab(tab)

SpecTrend == InitTrend /\ [][NextTrend]_vars

\* C21: the inflection time of each analysis is the marker handed to its
\* chart, with the combined sequence, for the amplitude and for the
\* frequency analysis.
C21_MarkerDelivered ==
    activeTab = "electrical" =>
        /\ ampChart.data = ampAnalysis.fullData
        /\ ampChart.inflectionTime = ampAnalysis.inflectionTime
        /\ freqChart.data = freqAnalysis.fullData
        /\ freqChart.inflectionTime = freqAnalysis.inflectionTime

\* what holds of the code: the amplitude chart is handed the marker
AmpMarkerDelivered ==
    activeTab = "electrical" =>
        /\ ampChart.data = ampAnalysis.fullData
        /\ ampChart.inflectionTime = ampAnalysis.inflectionTime
        /\ freqChart.data = freqAnalysis.fullData
        /\ freqChart.inflectionTime = Null

\* the keys of the selected channel
KeysOfChannel ==
    CASE selectedChannel = "UHF" -> <<"uhf_amp", "uhf_freq">>
      [] selectedChannel = "TEV" -> <<"tev_amp", "tev_freq">>
      [] selectedChannel = "AE" -> <<"ae_amp", "ae_freq">>

\* the analyses are those of the current chartData and channel
AnalysesCurrent ==
    /\ ampAnalysis = AnalysisData(chartData, KeysOfChannel[1])
    /\ freqAnalysis = AnalysisData(chartData, KeysOfChannel[2])

\* chartData has the length and the spacing of the selected time range
DataOfRange ==
    /\ timeRange = "24h" => Len(chartData) = 24 /\ TimeOfPoint(1) = TimeOfPoint(0) + 1
    /\ timeRange = "7d" => Len(chartData) = 28 /\ TimeOfPoint(1) = TimeOfPoint(0) + 6
    /\ timeRange = "3m" => Len(chartData) = 90 /\ TimeOfPoint(1) = TimeOfPoint(0) + 24
    /\ timeRange = "6m" => Len(chartData) = 90 /\ TimeOfPoint(1) = TimeOfPoint(0) + 48

\* C22: once the pending effects have run, the two analyses are the pipeline
\* applied to the current chartData with the keys of the selected channel,
\* and chartData is a series of the selected time range; a change of the
\* time range or of the selected sensor leaves the generation pending, which
\* replaces chartData by a newly generated series; a change of the channel
\* recomputes the analyses and leaves chartData alone.
C22_NeverStale ==
    [][/\ pendingEffects = {} => (AnalysesCurrent /\ DataOfRange)
       /\ (timeRange' # timeRange \/ selectedSensorId' # selectedSensorId)
              => "generate" \in pendingEffects'
       /\ "generate" \in pendingEffects
              => \E rnd \in RandomSources :
                     chartData' = [k \in 1..Len(chartData') |->
                         GeneratedPoint(k - 1, Len(chartData'),
                                        IntervalOf(timeRange), rnd, now)]
       /\ selectedChannel' # selectedChannel
              => /\ chartData' = chartData
                 /\ pendingEffects' = {}]_vars

\* on the TEV channel of a 7-day series, after a change of both
C22_Witness ==
    /\ pendingEffects = {}
    /\ timeRange = "7d"
    /\ selectedChannel = "TEV"
    /\ selectedSensorId = Some("s2")
    /\ Len(chartData) = 28
    /\ Len(ampAnalysis.fullData) = 28 + DefaultHorizon
    /\ ampAnalysis.inflectionTime # Null
    /\ At(ampAnalysis.fullData, 0).original = At(chartData, 0).tev_amp

====
